---- MODULE Spec2Model ----
(***************************************************************************)
(* Via Labs message gateway v4 (Solana / Anchor program).                  *)
(*                                                                         *)
(* State: the program's accounts (the gateway configuration, the TxId      *)
(* PDAs that guard replay, the per-source-chain counter PDAs, the signer   *)
(* registries).  One action per instruction of the program; an instruction *)
(* is atomic (a Solana transaction either commits every account change or  *)
(* none), and Anchor validates the accounts of the #[derive(Accounts)]     *)
(* struct, in field order, before the handler body runs.                   *)
(***************************************************************************)
EXTENDS Integers, Sequences, FiniteSets, TLC

\* ------------------------------------------------------------------ bounds
\* transaction identifiers 0..MaxTxId
MaxTxId == 1
\* saturation of the history counters okClaims / okConsumes
MaxCount == 2

\* ------------------------------------------------------- program constants
MAX_RECIPIENT_SIZE == 64
MAX_SENDER_SIZE == 64
MAX_ON_CHAIN_DATA_SIZE == 1024
MAX_OFF_CHAIN_DATA_SIZE == 1024
MAX_SIGNATURES_PER_MESSAGE == 8
MIN_SIGNATURES_REQUIRED == 2
MAX_SIGNERS_PER_REGISTRY == 10

\* ------------------------------------------------------------ value spaces
TxIds == 0..MaxTxId
\* chain identifiers: 0 (the value a zeroed counter account holds) and a non-zero one
ChainIds == {0, 1}
\* the chain the deployed gateway serves (initialize_gateway's chain_id)
LocalChain == 1

\* an address that holds no account; Option::None
NoAccount == [account |-> "none"]
None == [option |-> "none"]

\* public keys: the deployment's signers, an outsider, and the two callers
P1 == "P1"
P2 == "P2"
C1 == "C1"
X == "X"
Admin == "Admin"
Mallory == "Mallory"

RegistryTypes == {"VIA", "Chain", "Project"}
RegistryKeys == RegistryTypes \X ChainIds
Keys == ChainIds \X TxIds

Zeros(n) == [i \in 1..n |-> 0]

\* ------------------------------------------------------------ utils/hash.rs
RECURSIVE to_le_bytes(_, _)
\* <int>::to_le_bytes: the `width` little-endian bytes of n
to_le_bytes(n, width) ==
    IF width = 0 THEN <<>> ELSE <<n % 256>> \o to_le_bytes(n \div 256, width - 1)

\* variant: the bytes without the length in front
encode_without_length(buffer, data) ==
    buffer \o data

\* encode_length_prefixed: u32 little-endian length, then the bytes (the
\* `as u32` cast cannot truncate: every field is at most 1025 bytes here)
encode_length_prefixed(buffer, data) ==
    buffer \o to_le_bytes(Len(data), 4) \o data

\* the byte string create_cross_chain_hash feeds to keccak
encode_envelope(tx_id, source_chain_id, dest_chain_id, sender, recipient, on_chain_data, off_chain_data) ==
    LET b0 == to_le_bytes(tx_id, 16) \o to_le_bytes(source_chain_id, 8) \o to_le_bytes(dest_chain_id, 8)
        b1 == encode_length_prefixed(b0, sender)
        b2 == encode_length_prefixed(b1, recipient)
        b3 == encode_length_prefixed(b2, on_chain_data)
    IN  encode_length_prefixed(b3, off_chain_data)

\* keccak::hash, idealised: collision free and never the all-zero digest
keccak_hash(bytes) == [keccak |-> bytes]
ZeroHash == [zero |-> 32]

\* create_cross_chain_hash: [err, hash]
create_cross_chain_hash(tx_id, source_chain_id, dest_chain_id, sender, recipient, on_chain_data, off_chain_data) ==
    IF Len(sender) > 64 THEN [err |-> "SenderTooLong", hash |-> ZeroHash]
    ELSE IF Len(recipient) > 64 THEN [err |-> "RecipientTooLong", hash |-> ZeroHash]
    ELSE IF Len(on_chain_data) > 1024 THEN [err |-> "OnChainDataTooLarge", hash |-> ZeroHash]
    ELSE IF Len(off_chain_data) > 1024 THEN [err |-> "OffChainDataTooLarge", hash |-> ZeroHash]
    ELSE [err |-> "Ok",
          hash |-> keccak_hash(encode_envelope(tx_id, source_chain_id, dest_chain_id,
                                               sender, recipient, on_chain_data, off_chain_data))]

\* create_message_hash_for_signing
create_message_hash_for_signing(tx_id, source_chain_id, dest_chain_id, sender, recipient, on_chain_data, off_chain_data) ==
    create_cross_chain_hash(tx_id, source_chain_id, dest_chain_id, sender, recipient, on_chain_data, off_chain_data)

\* validate_message_hash: "Ok" unless the hash is all zeros
validate_message_hash(hash) ==
    IF hash = ZeroHash THEN "InvalidMessageHash" ELSE "Ok"

\* ------------------------------------------------- state/signer_registry.rs
\* SignerRegistry::is_signer
is_signer(registry, signer) ==
    registry.enabled /\ \E i \in 1..Len(registry.signers) : registry.signers[i] = signer

\* SignerRegistry::validate_threshold
validate_threshold(registry) ==
    IF ~(registry.required_signatures > 0) THEN "InvalidThreshold"
    ELSE IF ~(registry.required_signatures <= Len(registry.signers) % 256) THEN "ThresholdTooHigh"
    ELSE "Ok"

\* ValidationResult::new
ValidationResult_new ==
    [via_signatures |-> 0, chain_signatures |-> 0, project_signatures |-> 0, total_valid |-> 0]

\* ValidationResult::increment_for_signer (u8 counters)
increment_for_signer(r, is_via, is_chain, is_project) ==
    [via_signatures |-> IF is_via THEN (r.via_signatures + 1) % 256 ELSE r.via_signatures,
     chain_signatures |-> IF is_chain THEN (r.chain_signatures + 1) % 256 ELSE r.chain_signatures,
     project_signatures |-> IF is_project THEN (r.project_signatures + 1) % 256 ELSE r.project_signatures,
     total_valid |-> IF is_via \/ is_chain \/ is_project THEN (r.total_valid + 1) % 256 ELSE r.total_valid]

\* ------------------------------------------------------- utils/signature.rs
\* An instruction of the transaction is [program_id, signature, pubkey, message]:
\* for the Ed25519 native program the three data fields the program reads at
\* data[16..80], data[80..112] and data[112..].
ED25519_PROGRAM == "Ed25519SigVerify"

\* parse_ed25519_instruction: always Some(..); the value inside
parse_ed25519_instruction(ix, expected_signature, expected_signer, expected_message) ==
    /\ ix.signature = expected_signature
    /\ ix.pubkey = expected_signer
    /\ ix.message = expected_message

\* variant: the loop goes on to the next Ed25519 instruction after a mismatch
verify_any_ed25519_instruction(signature, signer, message_hash, ixs) ==
    \E i \in 1..Len(ixs) :
        /\ ixs[i].program_id = ED25519_PROGRAM
        /\ parse_ed25519_instruction(ixs[i], signature, signer, message_hash)

\* variant: the function ends with Ok(true)
verify_accepts_unproved(signature, signer, message_hash, ixs) == TRUE

\* verify_ed25519_signature: the loop over the instructions before the
\* current one returns at the first instruction of the Ed25519 program,
\* whatever parse_ed25519_instruction answered for it
verify_ed25519_signature(signature, signer, message_hash, ixs) ==
    LET ed == {i \in 1..Len(ixs) : ixs[i].program_id = ED25519_PROGRAM}
    IN  IF ed = {} THEN FALSE
        ELSE LET first == CHOOSE i \in ed : \A j \in ed : i <= j
             IN  parse_ed25519_instruction(ixs[first], signature, signer, message_hash)

\* validate_signature_thresholds
validate_signature_thresholds(r, via_registry, chain_registry, project_registry) ==
    IF ~(r.via_signatures >= via_registry.required_signatures) THEN "InsufficientVIASignatures"
    ELSE IF ~(r.chain_signatures >= chain_registry.required_signatures) THEN "InsufficientChainSignatures"
    ELSE IF project_registry # None /\ ~(r.project_signatures >= project_registry.required_signatures)
         THEN "InsufficientProjectSignatures"
    ELSE "Ok"

RECURSIVE validate_each_signature_dropping(_, _, _, _, _, _, _, _, _)
\* variant: a signature that does not verify is skipped and the rest counted
validate_each_signature_dropping(signatures, i, used_signers, r, message_hash, via_registry, chain_registry, project_registry, ixs) ==
    IF i > Len(signatures) THEN [err |-> "Ok", result |-> r]
    ELSE
      LET s == signatures[i]
          is_via_signer == is_signer(via_registry, s.signer)
          is_chain_signer == is_signer(chain_registry, s.signer)
          is_project_signer == IF project_registry # None THEN is_signer(project_registry, s.signer) ELSE FALSE
      IN  IF s.signer \in used_signers THEN [err |-> "DuplicateSigner", result |-> r]
          ELSE IF ~verify_ed25519_signature(s.signature, s.signer, message_hash, ixs)
               THEN validate_each_signature_dropping(signatures, i + 1, used_signers \cup {s.signer}, r,
                                       message_hash, via_registry, chain_registry, project_registry, ixs)
          ELSE IF ~is_via_signer /\ ~is_chain_signer /\ ~is_project_signer
               THEN [err |-> "UnauthorizedSigner", result |-> r]
          ELSE validate_each_signature_dropping(signatures, i + 1, used_signers \cup {s.signer},
                                       increment_for_signer(r, is_via_signer, is_chain_signer, is_project_signer),
                                       message_hash, via_registry, chain_registry, project_registry, ixs)

RECURSIVE validate_each_signature_first_only(_, _, _, _, _, _, _, _, _)
\* variant: only the first signature of the batch is verified
validate_each_signature_first_only(signatures, i, used_signers, r, message_hash, via_registry, chain_registry, project_registry, ixs) ==
    IF i > Len(signatures) THEN [err |-> "Ok", result |-> r]
    ELSE
      LET s == signatures[i]
          is_via_signer == is_signer(via_registry, s.signer)
          is_chain_signer == is_signer(chain_registry, s.signer)
          is_project_signer == IF project_registry # None THEN is_signer(project_registry, s.signer) ELSE FALSE
      IN  IF s.signer \in used_signers THEN [err |-> "DuplicateSigner", result |-> r]
          ELSE IF i = 1 /\ ~verify_ed25519_signature(s.signature, s.signer, message_hash, ixs)
               THEN [err |-> "InvalidSignature", result |-> r]
          ELSE IF ~is_via_signer /\ ~is_chain_signer /\ ~is_project_signer
               THEN [err |-> "UnauthorizedSigner", result |-> r]
          ELSE validate_each_signature_first_only(signatures, i + 1, used_signers \cup {s.signer},
                                       increment_for_signer(r, is_via_signer, is_chain_signer, is_project_signer),
                                       message_hash, via_registry, chain_registry, project_registry, ixs)

RECURSIVE validate_each_signature(_, _, _, _, _, _, _, _, _)
\* the `for signature in signatures` loop of validate_three_layer_signatures,
\* from position i, with the signers used and the counts accumulated so far
validate_each_signature(signatures, i, used_signers, r, message_hash, via_registry, chain_registry, project_registry, ixs) ==
    IF i > Len(signatures) THEN [err |-> "Ok", result |-> r]
    ELSE
      LET s == signatures[i]
          is_via_signer == is_signer(via_registry, s.signer)
          is_chain_signer == is_signer(chain_registry, s.signer)
          is_project_signer == IF project_registry # None THEN is_signer(project_registry, s.signer) ELSE FALSE
      IN  IF s.signer \in used_signers THEN [err |-> "DuplicateSigner", result |-> r]
          ELSE IF ~verify_ed25519_signature(s.signature, s.signer, message_hash, ixs)
               THEN [err |-> "InvalidSignature", result |-> r]
          ELSE IF ~is_via_signer /\ ~is_chain_signer /\ ~is_project_signer
               THEN [err |-> "UnauthorizedSigner", result |-> r]
          ELSE validate_each_signature(signatures, i + 1, used_signers \cup {s.signer},
                                       increment_for_signer(r, is_via_signer, is_chain_signer, is_project_signer),
                                       message_hash, via_registry, chain_registry, project_registry, ixs)

\* variant: the enabled flags of the registries are not tested
validate_three_layer_signatures_unguarded(signatures, message_hash, via_registry, chain_registry, project_registry, ixs) ==
    LET fail(e) == [err |-> e, result |-> ValidationResult_new]
        each == validate_each_signature(signatures, 1, {}, ValidationResult_new, message_hash,
                                        via_registry, chain_registry, project_registry, ixs)
        thr == validate_signature_thresholds(each.result, via_registry, chain_registry, project_registry)
    IN  IF ~(Len(signatures) # 0 /\ Len(signatures) <= MAX_SIGNATURES_PER_MESSAGE) THEN fail("TooManySignatures")
        ELSE IF ~(Len(signatures) >= MIN_SIGNATURES_REQUIRED) THEN fail("TooFewSignatures")
        ELSE IF validate_message_hash(message_hash) # "Ok" THEN fail("InvalidMessageHash")
        ELSE IF each.err # "Ok" THEN each
        ELSE IF thr # "Ok" THEN [err |-> thr, result |-> each.result]
        ELSE each

\* validate_three_layer_signatures: [err, result]
validate_three_layer_signatures(signatures, message_hash, via_registry, chain_registry, project_registry, ixs) ==
    LET fail(e) == [err |-> e, result |-> ValidationResult_new]
        each == validate_each_signature(signatures, 1, {}, ValidationResult_new, message_hash,
                                        via_registry, chain_registry, project_registry, ixs)
        thr == validate_signature_thresholds(each.result, via_registry, chain_registry, project_registry)
    IN  IF ~(Len(signatures) # 0 /\ Len(signatures) <= MAX_SIGNATURES_PER_MESSAGE) THEN fail("TooManySignatures")
        ELSE IF ~(Len(signatures) >= MIN_SIGNATURES_REQUIRED) THEN fail("TooFewSignatures")
        ELSE IF validate_message_hash(message_hash) # "Ok" THEN fail("InvalidMessageHash")
        ELSE IF ~via_registry.enabled THEN fail("SignerRegistryDisabled")
        ELSE IF ~chain_registry.enabled THEN fail("SignerRegistryDisabled")
        ELSE IF project_registry # None /\ ~project_registry.enabled THEN fail("SignerRegistryDisabled")
        ELSE IF each.err # "Ok" THEN each
        ELSE IF thr # "Ok" THEN [err |-> thr, result |-> each.result]
        ELSE each

\* validate_signatures_tx1: the error, or "Ok"
validate_signatures_tx1(signatures, message_hash, ixs) ==
    IF ~(Len(signatures) # 0 /\ Len(signatures) <= MAX_SIGNATURES_PER_MESSAGE) THEN "TooManySignatures"
    ELSE IF validate_message_hash(message_hash) # "Ok" THEN "InvalidMessageHash"
    ELSE IF \E i \in 1..Len(signatures) :
               verify_ed25519_signature(signatures[i].signature, signatures[i].signer, message_hash, ixs)
         THEN "Ok"
    ELSE "InvalidSignature"

\* ------------------------------------------------------------------- state
VARIABLES
    gateway,            \* MessageGateway account of LocalChain
    tx_id_pdas,         \* Keys -> TxIdPDA account or NoAccount
    counter_pdas,       \* ChainIds -> CounterPDA account or NoAccount
    signer_registries,  \* RegistryKeys -> SignerRegistry account or NoAccount
    last,               \* history: the instruction executed last and its outcome
    okClaims,           \* history: Keys -> successful create_tx_pda so far (saturating)
    okConsumes,         \* history: Keys -> successful process_message so far (saturating)
    maxClaimed,         \* history: ChainIds -> greatest tx_id claimed successfully, -1 if none
    call                \* one call of a function of utils/signature.rs: its arguments and its result

vars == <<gateway, tx_id_pdas, counter_pdas, signer_registries, last, okClaims, okConsumes, maxClaimed, call>>

\* ------------------------------------------------- Anchor account constraints
\* variant: init_if_needed on the tx_id_pda
anchor_init_existing_allowed(account) == "Ok"

\* #[account(init, ...)]: the system program creates the account; it refuses
\* an address that already holds one
anchor_init(account) ==
    IF account = NoAccount THEN "Ok" ELSE "AccountAlreadyInUse"

\* #[account(init_if_needed, ...)]: the account as stored, or a fresh zeroed one
anchor_init_if_needed(account, zeroed) ==
    IF account = NoAccount THEN zeroed ELSE account

\* Account<'info, T>: deserialising an address that holds no account fails
anchor_load(account, name) ==
    IF account = NoAccount THEN "AccountNotInitialized:" \o name ELSE "Ok"

\* #[account(has_one = authority @ UnauthorizedAuthority)]
has_one_authority(account, authority) ==
    IF account.authority = authority THEN "Ok" ELSE "UnauthorizedAuthority"

\* ------------------------------------------------ instructions/initialize.rs
\* initialize::handler: the gateway account it writes
initialize_gateway(authority, chain_id) ==
    [authority |-> authority, chain_id |-> chain_id, system_enabled |-> TRUE]

\* ----------------------------------------------------- instructions/admin.rs
\* set_system_enabled, behind SetSystemEnabled's has_one: [err, gateway]
set_system_enabled(gw, authority, enabled) ==
    IF has_one_authority(gw, authority) # "Ok"
    THEN [err |-> "UnauthorizedAuthority", gateway |-> gw]
    ELSE [err |-> "Ok", gateway |-> [gw EXCEPT !.system_enabled = enabled]]

\* ------------------------------------------- instructions/signer_registry.rs
\* initialize_signer_registry: [err, registry]
initialize_signer_registry(authority, registry_type, chain_id, initial_signers, required_signatures) ==
    LET fail(e) == [err |-> e, registry |-> NoAccount]
    IN  IF Len(initial_signers) = 0 THEN fail("InsufficientSignatures")
        ELSE IF ~(Len(initial_signers) <= MAX_SIGNERS_PER_REGISTRY) THEN fail("TooManySignatures")
        ELSE IF ~(required_signatures > 0 /\ required_signatures <= Len(initial_signers) % 256)
             THEN fail("InvalidThreshold")
        ELSE [err |-> "Ok",
              registry |-> [registry_type |-> registry_type, authority |-> authority,
                            signers |-> initial_signers, required_signatures |-> required_signatures,
                            chain_id |-> chain_id, enabled |-> TRUE]]

\* set_registry_enabled, behind SetRegistryEnabled's constraints: [err, registry]
set_registry_enabled(registry, gw, authority, enabled) ==
    IF anchor_load(registry, "signer_registry") # "Ok"
    THEN [err |-> anchor_load(registry, "signer_registry"), registry |-> registry]
    ELSE IF has_one_authority(registry, authority) # "Ok" \/ has_one_authority(gw, authority) # "Ok"
    THEN [err |-> "UnauthorizedAuthority", registry |-> registry]
    ELSE [err |-> "Ok", registry |-> [registry EXCEPT !.enabled = enabled]]

\* the account constraints shared by UpdateSigners, AddSigner, RemoveSigner,
\* UpdateThreshold and SetRegistryEnabled: the registry exists, and the
\* signing authority is the registry's and the gateway's (has_one on both)
registry_constraints(registry, gw, authority) ==
    IF anchor_load(registry, "signer_registry") # "Ok" THEN anchor_load(registry, "signer_registry")
    ELSE IF has_one_authority(registry, authority) # "Ok" THEN "UnauthorizedAuthority"
    ELSE IF has_one_authority(gw, authority) # "Ok" THEN "UnauthorizedAuthority"
    ELSE "Ok"

\* the initialize_signer_registry instruction: InitializeSignerRegistry's
\* constraints (init of the registry account, has_one on the gateway), then
\* the function: [err, registry]
initialize_signer_registry_ix(registry, gw, authority, registry_type, chain_id, initial_signers, required_signatures) ==
    LET r == initialize_signer_registry(authority, registry_type, chain_id, initial_signers, required_signatures)
    IN  IF anchor_init(registry) # "Ok" THEN [err |-> anchor_init(registry), registry |-> registry]
        ELSE IF has_one_authority(gw, authority) # "Ok" THEN [err |-> "UnauthorizedAuthority", registry |-> registry]
        ELSE IF r.err # "Ok" THEN [err |-> r.err, registry |-> registry]
        ELSE r

\* update_signers, behind UpdateSigners' constraints: [err, registry]
update_signers(registry, gw, authority, new_signers, new_required_signatures) ==
    LET fail(e) == [err |-> e, registry |-> registry]
        updated == [registry EXCEPT !.signers = new_signers, !.required_signatures = new_required_signatures]
    IN  IF registry_constraints(registry, gw, authority) # "Ok" THEN fail(registry_constraints(registry, gw, authority))
        ELSE IF Len(new_signers) = 0 THEN fail("InsufficientSignatures")
        ELSE IF ~(Len(new_signers) <= MAX_SIGNERS_PER_REGISTRY) THEN fail("TooManySignatures")
        ELSE IF ~(new_required_signatures > 0 /\ new_required_signatures <= Len(new_signers) % 256)
             THEN fail("InvalidThreshold")
        ELSE IF validate_threshold(updated) # "Ok" THEN fail(validate_threshold(updated))
        ELSE [err |-> "Ok", registry |-> updated]

\* variant: the signer is pushed without looking for it in the list
add_signer_unchecked(registry, gw, authority, new_signer) ==
    LET fail(e) == [err |-> e, registry |-> registry]
    IN  IF registry_constraints(registry, gw, authority) # "Ok" THEN fail(registry_constraints(registry, gw, authority))
        ELSE IF ~(Len(registry.signers) < MAX_SIGNERS_PER_REGISTRY) THEN fail("TooManySignatures")
        ELSE [err |-> "Ok", registry |-> [registry EXCEPT !.signers = Append(@, new_signer)]]

\* add_signer, behind AddSigner's constraints: [err, registry]
add_signer(registry, gw, authority, new_signer) ==
    LET fail(e) == [err |-> e, registry |-> registry]
    IN  IF registry_constraints(registry, gw, authority) # "Ok" THEN fail(registry_constraints(registry, gw, authority))
        ELSE IF \E i \in 1..Len(registry.signers) : registry.signers[i] = new_signer THEN fail("DuplicateSigner")
        ELSE IF ~(Len(registry.signers) < MAX_SIGNERS_PER_REGISTRY) THEN fail("TooManySignatures")
        ELSE [err |-> "Ok", registry |-> [registry EXCEPT !.signers = Append(@, new_signer)]]

\* Vec::remove(position)
RemoveAt(seq, position) == [i \in 1..(Len(seq) - 1) |-> IF i < position THEN seq[i] ELSE seq[i + 1]]

\* variant: the threshold is lowered to the remaining signer count
remove_signer_compensating(registry, gw, authority, signer_to_remove) ==
    LET fail(e) == [err |-> e, registry |-> registry]
        found == {i \in 1..Len(registry.signers) : registry.signers[i] = signer_to_remove}
        position == CHOOSE i \in found : \A j \in found : i <= j
        remaining == RemoveAt(registry.signers, position)
    IN  IF registry_constraints(registry, gw, authority) # "Ok" THEN fail(registry_constraints(registry, gw, authority))
        ELSE IF found = {} THEN fail("UnauthorizedSigner")
        ELSE [err |-> "Ok",
              registry |-> [registry EXCEPT !.signers = remaining,
                                            !.required_signatures = IF @ <= Len(remaining) THEN @ ELSE Len(remaining)]]

\* remove_signer, behind RemoveSigner's constraints: [err, registry]
remove_signer(registry, gw, authority, signer_to_remove) ==
    LET fail(e) == [err |-> e, registry |-> registry]
        found == {i \in 1..Len(registry.signers) : registry.signers[i] = signer_to_remove}
        position == CHOOSE i \in found : \A j \in found : i <= j
        remaining == RemoveAt(registry.signers, position)
    IN  IF registry_constraints(registry, gw, authority) # "Ok" THEN fail(registry_constraints(registry, gw, authority))
        ELSE IF found = {} THEN fail("UnauthorizedSigner")
        ELSE IF ~(registry.required_signatures <= Len(remaining) % 256) THEN fail("ThresholdTooHigh")
        ELSE [err |-> "Ok", registry |-> [registry EXCEPT !.signers = remaining]]

\* variant: UpdateThreshold without has_one = authority on the registry
update_threshold_any_authority(registry, gw, authority, new_threshold) ==
    LET fail(e) == [err |-> e, registry |-> registry]
    IN  IF anchor_load(registry, "signer_registry") # "Ok" THEN fail(anchor_load(registry, "signer_registry"))
        ELSE IF has_one_authority(gw, authority) # "Ok" THEN fail("UnauthorizedAuthority")
        ELSE IF ~(new_threshold > 0) THEN fail("InvalidThreshold")
        ELSE IF ~(new_threshold <= Len(registry.signers) % 256) THEN fail("ThresholdTooHigh")
        ELSE [err |-> "Ok", registry |-> [registry EXCEPT !.required_signatures = new_threshold]]

\* update_threshold, behind UpdateThreshold's constraints: [err, registry]
update_threshold(registry, gw, authority, new_threshold) ==
    LET fail(e) == [err |-> e, registry |-> registry]
    IN  IF registry_constraints(registry, gw, authority) # "Ok" THEN fail(registry_constraints(registry, gw, authority))
        ELSE IF ~(new_threshold > 0) THEN fail("InvalidThreshold")
        ELSE IF ~(new_threshold <= Len(registry.signers) % 256) THEN fail("ThresholdTooHigh")
        ELSE [err |-> "Ok", registry |-> [registry EXCEPT !.required_signatures = new_threshold]]

\* --------------------------------------------- instructions/create_tx_pda.rs
\* variant: the handler leaves the tx_id of the initialised record as it is
create_tx_pda_handler_unstored(tx_pda, counter, a) ==
    LET h == create_message_hash_for_signing(a.tx_id, a.source_chain_id, a.dest_chain_id,
                                             a.sender, a.recipient, a.on_chain_data, a.off_chain_data)
        sigs == validate_signatures_tx1(a.signatures, h.hash, a.ixs)
        fail(e) == [err |-> e, tx_id_pda |-> tx_pda, counter_pda |-> counter]
        c1 == IF counter.source_chain_id = 0
              THEN [source_chain_id |-> a.source_chain_id, highest_tx_id_seen |-> 0]
              ELSE counter
        c2 == IF a.tx_id > c1.highest_tx_id_seen
              THEN [c1 EXCEPT !.highest_tx_id_seen = a.tx_id]
              ELSE c1
    IN  IF ~(Len(a.sender) <= MAX_SENDER_SIZE) THEN fail("SenderTooLong")
        ELSE IF ~(Len(a.recipient) <= MAX_RECIPIENT_SIZE) THEN fail("RecipientTooLong")
        ELSE IF ~(Len(a.on_chain_data) <= MAX_ON_CHAIN_DATA_SIZE) THEN fail("OnChainDataTooLarge")
        ELSE IF ~(Len(a.off_chain_data) <= MAX_OFF_CHAIN_DATA_SIZE) THEN fail("OffChainDataTooLarge")
        ELSE IF h.err # "Ok" THEN fail(h.err)
        ELSE IF sigs # "Ok" THEN fail(sigs)
        ELSE [err |-> "Ok", tx_id_pda |-> tx_pda, counter_pda |-> c2]

\* create_tx_pda::handler on the freshly created tx_id_pda and the counter
\* account Anchor handed it: [err, tx_id_pda, counter_pda]
create_tx_pda_handler(tx_pda, counter, a) ==
    LET h == create_message_hash_for_signing(a.tx_id, a.source_chain_id, a.dest_chain_id,
                                             a.sender, a.recipient, a.on_chain_data, a.off_chain_data)
        sigs == validate_signatures_tx1(a.signatures, h.hash, a.ixs)
        fail(e) == [err |-> e, tx_id_pda |-> tx_pda, counter_pda |-> counter]
        c1 == IF counter.source_chain_id = 0
              THEN [source_chain_id |-> a.source_chain_id, highest_tx_id_seen |-> 0]
              ELSE counter
        c2 == IF a.tx_id > c1.highest_tx_id_seen
              THEN [c1 EXCEPT !.highest_tx_id_seen = a.tx_id]
              ELSE c1
    IN  IF ~(Len(a.sender) <= MAX_SENDER_SIZE) THEN fail("SenderTooLong")
        ELSE IF ~(Len(a.recipient) <= MAX_RECIPIENT_SIZE) THEN fail("RecipientTooLong")
        ELSE IF ~(Len(a.on_chain_data) <= MAX_ON_CHAIN_DATA_SIZE) THEN fail("OnChainDataTooLarge")
        ELSE IF ~(Len(a.off_chain_data) <= MAX_OFF_CHAIN_DATA_SIZE) THEN fail("OffChainDataTooLarge")
        ELSE IF h.err # "Ok" THEN fail(h.err)
        ELSE IF sigs # "Ok" THEN fail(sigs)
        ELSE [err |-> "Ok", tx_id_pda |-> [tx_id |-> a.tx_id], counter_pda |-> c2]

\* variant: a tx_id at or below the counter's watermark is refused
create_tx_pda_watermark_gated(tx_pda_account, counter_account, a) ==
    IF anchor_init(tx_pda_account) # "Ok"
    THEN [err |-> anchor_init(tx_pda_account), tx_id_pda |-> tx_pda_account, counter_pda |-> counter_account]
    ELSE IF counter_account # NoAccount /\ a.tx_id <= counter_account.highest_tx_id_seen
    THEN [err |-> "InvalidTxId", tx_id_pda |-> tx_pda_account, counter_pda |-> counter_account]
    ELSE LET r == create_tx_pda_handler([tx_id |-> 0],
                      anchor_init_if_needed(counter_account, [source_chain_id |-> 0, highest_tx_id_seen |-> 0]),
                      a)
         IN  IF r.err = "Ok" THEN r
             ELSE [err |-> r.err, tx_id_pda |-> tx_pda_account, counter_pda |-> counter_account]

\* variant: the instruction refuses to run while the gateway is disabled
create_tx_pda_gateway_gated(tx_pda_account, counter_account, a) ==
    IF ~gateway.system_enabled
    THEN [err |-> "SystemDisabled", tx_id_pda |-> tx_pda_account, counter_pda |-> counter_account]
    ELSE IF anchor_init(tx_pda_account) # "Ok"
    THEN [err |-> anchor_init(tx_pda_account), tx_id_pda |-> tx_pda_account, counter_pda |-> counter_account]
    ELSE LET r == create_tx_pda_handler([tx_id |-> 0],
                      anchor_init_if_needed(counter_account, [source_chain_id |-> 0, highest_tx_id_seen |-> 0]),
                      a)
         IN  IF r.err = "Ok" THEN r
             ELSE [err |-> r.err, tx_id_pda |-> tx_pda_account, counter_pda |-> counter_account]

\* variant: the accounts initialised by the constraints are kept when the
\* handler fails
create_tx_pda_keeping_accounts(tx_pda_account, counter_account, a) ==
    IF anchor_init(tx_pda_account) # "Ok"
    THEN [err |-> anchor_init(tx_pda_account), tx_id_pda |-> tx_pda_account, counter_pda |-> counter_account]
    ELSE create_tx_pda_handler([tx_id |-> 0],
             anchor_init_if_needed(counter_account, [source_chain_id |-> 0, highest_tx_id_seen |-> 0]),
             a)

\* the create_tx_pda instruction: CreateTxPda's account constraints, then
\* the handler; a failure commits nothing: [err, tx_id_pda, counter_pda]
create_tx_pda(tx_pda_account, counter_account, a) ==
    IF anchor_init(tx_pda_account) # "Ok"
    THEN [err |-> anchor_init(tx_pda_account), tx_id_pda |-> tx_pda_account, counter_pda |-> counter_account]
    ELSE LET r == create_tx_pda_handler([tx_id |-> 0],
                      anchor_init_if_needed(counter_account, [source_chain_id |-> 0, highest_tx_id_seen |-> 0]),
                      a)
         IN  IF r.err = "Ok" THEN r
             ELSE [err |-> r.err, tx_id_pda |-> tx_pda_account, counter_pda |-> counter_account]

\* ------------------------------------------- instructions/process_message.rs
\* variant: the destination chain is compared before the enable flag is read
process_message_handler_dest_first(gw, tx_pda, via_registry, chain_registry, project_registry, a) ==
    LET h == create_message_hash_for_signing(a.tx_id, a.source_chain_id, a.dest_chain_id,
                                             a.sender, a.recipient, a.on_chain_data, a.off_chain_data)
        v == validate_three_layer_signatures(a.signatures, h.hash, via_registry, chain_registry,
                                             project_registry, a.ixs)
        fail(e) == [err |-> e, result |-> ValidationResult_new]
    IN  IF ~(a.dest_chain_id = gw.chain_id) THEN fail("InvalidDestChain")
        ELSE IF ~gw.system_enabled THEN fail("SystemDisabled")
        ELSE IF ~(Len(a.sender) <= MAX_SENDER_SIZE) THEN fail("SenderTooLong")
        ELSE IF ~(Len(a.recipient) <= MAX_RECIPIENT_SIZE) THEN fail("RecipientTooLong")
        ELSE IF ~(Len(a.on_chain_data) <= MAX_ON_CHAIN_DATA_SIZE) THEN fail("OnChainDataTooLarge")
        ELSE IF ~(Len(a.off_chain_data) <= MAX_OFF_CHAIN_DATA_SIZE) THEN fail("OffChainDataTooLarge")
        ELSE IF ~(tx_pda.tx_id = a.tx_id) THEN fail("InvalidTxId")
        ELSE IF h.err # "Ok" THEN fail(h.err)
        ELSE v

\* variant: the field sizes are compared before the destination chain
process_message_handler_sizes_first(gw, tx_pda, via_registry, chain_registry, project_registry, a) ==
    LET h == create_message_hash_for_signing(a.tx_id, a.source_chain_id, a.dest_chain_id,
                                             a.sender, a.recipient, a.on_chain_data, a.off_chain_data)
        v == validate_three_layer_signatures(a.signatures, h.hash, via_registry, chain_registry,
                                             project_registry, a.ixs)
        fail(e) == [err |-> e, result |-> ValidationResult_new]
    IN  IF ~gw.system_enabled THEN fail("SystemDisabled")
        ELSE IF ~(Len(a.sender) <= MAX_SENDER_SIZE) THEN fail("SenderTooLong")
        ELSE IF ~(Len(a.recipient) <= MAX_RECIPIENT_SIZE) THEN fail("RecipientTooLong")
        ELSE IF ~(Len(a.on_chain_data) <= MAX_ON_CHAIN_DATA_SIZE) THEN fail("OnChainDataTooLarge")
        ELSE IF ~(Len(a.off_chain_data) <= MAX_OFF_CHAIN_DATA_SIZE) THEN fail("OffChainDataTooLarge")
        ELSE IF ~(a.dest_chain_id = gw.chain_id) THEN fail("InvalidDestChain")
        ELSE IF ~(tx_pda.tx_id = a.tx_id) THEN fail("InvalidTxId")
        ELSE IF h.err # "Ok" THEN fail(h.err)
        ELSE v

\* process_message::handler: [err, result]
process_message_handler(gw, tx_pda, via_registry, chain_registry, project_registry, a) ==
    LET h == create_message_hash_for_signing(a.tx_id, a.source_chain_id, a.dest_chain_id,
                                             a.sender, a.recipient, a.on_chain_data, a.off_chain_data)
        v == validate_three_layer_signatures(a.signatures, h.hash, via_registry, chain_registry,
                                             project_registry, a.ixs)
        fail(e) == [err |-> e, result |-> ValidationResult_new]
    IN  IF ~gw.system_enabled THEN fail("SystemDisabled")
        ELSE IF ~(a.dest_chain_id = gw.chain_id) THEN fail("InvalidDestChain")
        ELSE IF ~(Len(a.sender) <= MAX_SENDER_SIZE) THEN fail("SenderTooLong")
        ELSE IF ~(Len(a.recipient) <= MAX_RECIPIENT_SIZE) THEN fail("RecipientTooLong")
        ELSE IF ~(Len(a.on_chain_data) <= MAX_ON_CHAIN_DATA_SIZE) THEN fail("OnChainDataTooLarge")
        ELSE IF ~(Len(a.off_chain_data) <= MAX_OFF_CHAIN_DATA_SIZE) THEN fail("OffChainDataTooLarge")
        ELSE IF ~(tx_pda.tx_id = a.tx_id) THEN fail("InvalidTxId")
        ELSE IF h.err # "Ok" THEN fail(h.err)
        ELSE v

\* the process_message instruction: ProcessMessage's accounts are loaded in
\* field order (gateway, tx_id_pda, via_registry, chain_registry, the
\* optional project_registry), then the handler runs; on success the close
\* constraint removes the tx_id_pda: [err, result, tx_id_pda]
process_message(gw, tx_pda_account, via_account, chain_account, project_account, a) ==
    LET fail(e) == [err |-> e, result |-> ValidationResult_new, tx_id_pda |-> tx_pda_account]
        r == process_message_handler(gw, tx_pda_account, via_account, chain_account, project_account, a)
    IN  IF anchor_load(tx_pda_account, "tx_id_pda") # "Ok" THEN fail(anchor_load(tx_pda_account, "tx_id_pda"))
        ELSE IF anchor_load(via_account, "via_registry") # "Ok" THEN fail(anchor_load(via_account, "via_registry"))
        ELSE IF anchor_load(chain_account, "chain_registry") # "Ok" THEN fail(anchor_load(chain_account, "chain_registry"))
        ELSE IF project_account # None /\ anchor_load(project_account, "project_registry") # "Ok"
             THEN fail(anchor_load(project_account, "project_registry"))
        ELSE IF r.err # "Ok" THEN fail(r.err)
        ELSE [err |-> "Ok", result |-> r.result, tx_id_pda |-> NoAccount]

\* variant: ProcessMessage without the seeds of the two registry accounts
process_message_ix_unseeded(gw, tx_pda_account, via_key, chain_key, project_account, a, accounts) ==
    process_message(gw, tx_pda_account, accounts[via_key], accounts[chain_key], project_account, a)

\* the process_message instruction on the registry accounts the caller
\* passes, by address: every account is loaded, then the seeds of
\* via_registry (VIA, dest_chain_id) and chain_registry (Chain,
\* source_chain_id) are checked, then the handler runs
process_message_ix(gw, tx_pda_account, via_key, chain_key, project_account, a, accounts) ==
    LET r == process_message(gw, tx_pda_account, accounts[via_key], accounts[chain_key], project_account, a)
        loaded == /\ anchor_load(tx_pda_account, "tx_id_pda") = "Ok"
                  /\ anchor_load(accounts[via_key], "via_registry") = "Ok"
                  /\ anchor_load(accounts[chain_key], "chain_registry") = "Ok"
                  /\ project_account # None => anchor_load(project_account, "project_registry") = "Ok"
        fail(e) == [err |-> e, result |-> ValidationResult_new, tx_id_pda |-> tx_pda_account]
    IN  IF ~loaded THEN r
        ELSE IF via_key # <<"VIA", a.dest_chain_id>> THEN fail("ConstraintSeeds")
        ELSE IF chain_key # <<"Chain", a.source_chain_id>> THEN fail("ConstraintSeeds")
        ELSE r

\* ------------------------------------------------------------------ inputs
\* the variable-length fields of an envelope: one within the size bounds,
\* one whose sender is a byte too long
PayloadOk == [sender |-> <<1>>, recipient |-> <<2>>, on_chain_data |-> <<3>>, off_chain_data |-> <<>>]
PayloadBig == [sender |-> Zeros(MAX_SENDER_SIZE + 1), recipient |-> <<2>>, on_chain_data |-> <<3>>, off_chain_data |-> <<>>]
Payloads == {PayloadOk, PayloadBig}

Envelopes ==
    {[tx_id |-> t, source_chain_id |-> s, dest_chain_id |-> d, sender |-> p.sender, recipient |-> p.recipient,
      on_chain_data |-> p.on_chain_data, off_chain_data |-> p.off_chain_data] :
        t \in TxIds, s \in ChainIds, d \in ChainIds, p \in Payloads}

\* what the off-chain signers sign: the digest of the envelope
Digest(e) ==
    keccak_hash(encode_envelope(e.tx_id, e.source_chain_id, e.dest_chain_id,
                                e.sender, e.recipient, e.on_chain_data, e.off_chain_data))
\* the digest of another envelope (same key, another recipient)
OtherDigest(e) == Digest([e EXCEPT !.recipient = <<9>>])

\* A signature value is [by, over]: produced with the key of `by` over the
\* digest `over`.  A MessageSignature pairs it with the signer it claims.
MessageSignature(claimed, by, over) == [signature |-> [by |-> by, over |-> over], signer |-> claimed]
\* The Ed25519 instruction that proves a signature value: the native program
\* accepts it only when the signature verifies under the key it names.
Ed25519Ix(sig) ==
    [program_id |-> ED25519_PROGRAM, signature |-> sig.signature, pubkey |-> sig.signature.by,
     message |-> sig.signature.over]
OtherIx == [program_id |-> "ComputeBudget", signature |-> None, pubkey |-> None, message |-> None]

\* the signers of a batch, as <<claimed signer, key that signed>>
Honest(s) == <<s, s>>
BatchHonest == <<Honest(P1), Honest(P2), Honest(C1)>>
BatchShapes ==
    { <<Honest(C1)>>,
      BatchHonest,
      <<Honest(P1), Honest(C1)>> }

Signatures(shape, over) == [i \in 1..Len(shape) |-> MessageSignature(shape[i][1], shape[i][2], over)]
\* a transaction that carries, before the program's instruction, one
\* Ed25519 instruction per signature, in batch order
WithProofs(sigs) == [signatures |-> sigs, ixs |-> <<OtherIx>> \o [i \in 1..Len(sigs) |-> Ed25519Ix(sigs[i])]]
WithoutProofs(sigs) == [signatures |-> sigs, ixs |-> <<OtherIx>>]

Submissions(e) ==
    {WithProofs(Signatures(shape, Digest(e))) : shape \in BatchShapes}
    \cup {WithoutProofs(Signatures(BatchHonest, Digest(e)))}

\* the argument lists of create_tx_pda and process_message
MessageArgs ==
    UNION {{[tx_id |-> e.tx_id, source_chain_id |-> e.source_chain_id, dest_chain_id |-> e.dest_chain_id,
             sender |-> e.sender, recipient |-> e.recipient, on_chain_data |-> e.on_chain_data,
             off_chain_data |-> e.off_chain_data, signatures |-> sub.signatures, ixs |-> sub.ixs] :
                sub \in Submissions(e)} : e \in Envelopes}

\* the account a caller may pass as project_registry: none, or any registry address
Some(rk) == [option |-> "some", key |-> rk]
ProjectChoices == {None, Some(<<"Project", 1>>), Some(<<"Project", 0>>)}
ProjectAccount(choice) == IF choice = None THEN None ELSE signer_registries[choice.key]

Authorities == {Admin, Mallory}
\* no call of a signature function is in progress
NoCall == [op |-> "none"]

\* --- arguments of validate_three_layer_signatures and validate_signatures_tx1
\* D is a member of the platform and of the chain registry; X of none
D == "D"
AuthEnvelope ==
    [tx_id |-> 0, source_chain_id |-> 0, dest_chain_id |-> LocalChain, sender |-> PayloadOk.sender,
     recipient |-> PayloadOk.recipient, on_chain_data |-> PayloadOk.on_chain_data,
     off_chain_data |-> PayloadOk.off_chain_data]
Registry(registry_type, chain_id, signers, required_signatures, enabled) ==
    [initialize_signer_registry(Admin, registry_type, chain_id, signers, required_signatures).registry
        EXCEPT !.enabled = enabled]
ViaRegistries == {Registry("VIA", LocalChain, <<P1, P2, D>>, t, e) : t \in {1, 2}, e \in BOOLEAN}
ChainRegistries == {Registry("Chain", 0, <<C1, D>>, 1, e) : e \in BOOLEAN}
ProjectRegistries == {None} \cup {Registry("Project", LocalChain, <<P1>>, 1, e) : e \in BOOLEAN}

\* a signature that claims signer s but was produced with Mallory's key
Forged(s) == <<s, Mallory>>
Repeat(n, x) == [i \in 1..n |-> x]
AuthShapes ==
    { <<>>, <<Honest(P1)>>,
      <<Honest(P1), Honest(C1)>>, <<Honest(C1), Honest(P1)>>, <<Honest(D), Honest(P1)>>,
      <<Honest(P1), Honest(P2), Honest(C1)>>,
      <<Honest(D), Honest(D)>>, <<Honest(P1), Honest(C1), Honest(P1)>>,
      <<Honest(P1), Honest(C1), Honest(X)>>, <<Honest(X), Honest(P1), Honest(C1)>>,
      <<Honest(P1), Forged(C1)>>, <<Forged(P1), Honest(C1)>>, <<Honest(P1), Honest(C1), Forged(P2)>>,
      Repeat(MAX_SIGNATURES_PER_MESSAGE, Honest(P1)), Repeat(MAX_SIGNATURES_PER_MESSAGE + 1, Honest(P1)) }

\* an Ed25519 instruction of the same transaction that proves a signature
\* of no concern to the program: Mallory's, over another digest
ForeignIx == Ed25519Ix(MessageSignature(Mallory, Mallory, OtherDigest(AuthEnvelope)))
Reverse(seq) == [i \in 1..Len(seq) |-> seq[Len(seq) + 1 - i]]
\* the instructions before the program's: one Ed25519 instruction per
\* signature in batch order, the same reversed, the same behind ForeignIx, none
ProofArrangements(sigs) ==
    LET proofs == [i \in 1..Len(sigs) |-> Ed25519Ix(sigs[i])]
    IN  { <<OtherIx>> \o proofs, Reverse(proofs), <<ForeignIx>> \o proofs, <<OtherIx>> }

AuthCalls ==
    UNION {{[op |-> "submitted", signatures |-> Signatures(shape, Digest(AuthEnvelope)), ixs |-> ixs,
             message_hash |-> Digest(AuthEnvelope), via_registry |-> v, chain_registry |-> c,
             project_registry |-> p, out |-> [err |-> "none", result |-> ValidationResult_new]] :
                ixs \in ProofArrangements(Signatures(shape, Digest(AuthEnvelope))),
                v \in ViaRegistries, c \in ChainRegistries, p \in ProjectRegistries} :
           shape \in AuthShapes}
\* the argument list of create_tx_pda that carries the call's batch
AuthArgs(c) ==
    [tx_id |-> AuthEnvelope.tx_id, source_chain_id |-> AuthEnvelope.source_chain_id,
     dest_chain_id |-> AuthEnvelope.dest_chain_id, sender |-> AuthEnvelope.sender,
     recipient |-> AuthEnvelope.recipient, on_chain_data |-> AuthEnvelope.on_chain_data,
     off_chain_data |-> AuthEnvelope.off_chain_data, signatures |-> c.signatures, ixs |-> c.ixs]
\* the registries set_registry_enabled is called on
ToggleKeys == {<<"VIA", 1>>}

\* ------------------------------------------------- vocabulary of the claims
KeyOf(a) == <<a.source_chain_id, a.tx_id>>
NoKey == <<0, 0>>
SizesOk(a) ==
    /\ Len(a.sender) <= 64 /\ Len(a.recipient) <= 64
    /\ Len(a.on_chain_data) <= 1024 /\ Len(a.off_chain_data) <= 1024
\* verify_single as specified: some Ed25519 instruction of the transaction
\* carries this signature, this signer and this digest
Verifies(sig, digest, ixs) ==
    \E i \in 1..Len(ixs) :
        /\ ixs[i].program_id = ED25519_PROGRAM
        /\ ixs[i].signature = sig.signature /\ ixs[i].pubkey = sig.signer /\ ixs[i].message = digest
BatchSigners(a) == {a.signatures[i].signer : i \in 1..Len(a.signatures)}
Members(registry) == {registry.signers[i] : i \in 1..Len(registry.signers)}
\* the batch holds at least required_signatures distinct members of the enabled registry
TierMet(registry, a) ==
    /\ registry # NoAccount /\ registry.enabled
    /\ Cardinality(BatchSigners(a) \cap Members(registry)) >= registry.required_signatures
\* every tier is met and every signature of the batch verifies
TiersMet(a, proj) ==
    /\ TierMet(signer_registries[<<"VIA", a.dest_chain_id>>], a)
    /\ TierMet(signer_registries[<<"Chain", a.source_chain_id>>], a)
    /\ proj # None => TierMet(ProjectAccount(proj), a)
    /\ \A i \in 1..Len(a.signatures) : Verifies(a.signatures[i], Digest(a), a.ixs)
\* an argument list that authorize, as specified, accepts on this state
FullyAuthorized(a, proj) ==
    /\ gateway.system_enabled /\ a.dest_chain_id = gateway.chain_id /\ SizesOk(a)
    /\ Len(a.signatures) >= 2 /\ Len(a.signatures) <= 8
    /\ Cardinality(BatchSigners(a)) = Len(a.signatures)
    /\ TiersMet(a, proj)
    /\ \A s \in BatchSigners(a) :
          \/ s \in Members(signer_registries[<<"VIA", a.dest_chain_id>>])
          \/ s \in Members(signer_registries[<<"Chain", a.source_chain_id>>])
          \/ proj # None /\ s \in Members(ProjectAccount(proj))
\* a claim proof the claim phase accepts
AcceptableProof(a) ==
    SizesOk(a) /\ validate_signatures_tx1(a.signatures, Digest(a), a.ixs) = "Ok"

Saturate(n) == IF n < MaxCount THEN n + 1 ELSE MaxCount
Max(x, y) == IF x >= y THEN x ELSE y

\* ------------------------------------------------------------------ actions
\* the accounts after deployment: the gateway and the registries initialised
Deployed ==
    /\ gateway = initialize_gateway(Admin, LocalChain)
    /\ tx_id_pdas = [k \in Keys |-> NoAccount]
    /\ counter_pdas = [c \in ChainIds |-> NoAccount]
    /\ signer_registries =
          [rk \in RegistryKeys |->
              IF rk[1] = "VIA" THEN initialize_signer_registry(Admin, "VIA", rk[2], <<P1, P2>>, 2).registry
              ELSE IF rk[1] = "Chain" THEN initialize_signer_registry(Admin, "Chain", rk[2], <<C1>>, 1).registry
              ELSE IF rk = <<"Project", 1>> THEN initialize_signer_registry(Admin, "Project", 1, <<P1>>, 1).registry
              ELSE NoAccount]
    /\ last = [op |-> "deploy", key |-> NoKey, result |-> "Ok"]
    /\ okClaims = [k \in Keys |-> 0]
    /\ okConsumes = [k \in Keys |-> 0]
    /\ maxClaimed = [c \in ChainIds |-> -1]

Init == Deployed /\ call = NoCall

\* variant: counter_pda without its seeds, the caller passing the counter
\* account of any source chain
CreateTxPdaAnyCounter ==
    \E a \in MessageArgs, c \in ChainIds :
        LET k == KeyOf(a)
            r == create_tx_pda(tx_id_pdas[k], counter_pdas[c], a)
        IN  /\ tx_id_pdas' = [tx_id_pdas EXCEPT ![k] = r.tx_id_pda]
            /\ counter_pdas' = [counter_pdas EXCEPT ![c] = r.counter_pda]
            /\ last' = [op |-> "create_tx_pda", key |-> k, result |-> r.err]
            /\ okClaims' = IF r.err = "Ok" THEN [okClaims EXCEPT ![k] = Saturate(@)] ELSE okClaims
            /\ maxClaimed' = IF r.err = "Ok" THEN [maxClaimed EXCEPT ![c] = Max(@, a.tx_id)] ELSE maxClaimed
            /\ UNCHANGED <<gateway, signer_registries, okConsumes, call>>

\* TX1: create_tx_pda
CreateTxPda ==
    \E a \in MessageArgs :
        LET k == KeyOf(a)
            c == a.source_chain_id
            r == create_tx_pda(tx_id_pdas[k], counter_pdas[c], a)
        IN  /\ tx_id_pdas' = [tx_id_pdas EXCEPT ![k] = r.tx_id_pda]
            /\ counter_pdas' = [counter_pdas EXCEPT ![c] = r.counter_pda]
            /\ last' = [op |-> "create_tx_pda", key |-> k, result |-> r.err]
            /\ okClaims' = IF r.err = "Ok" THEN [okClaims EXCEPT ![k] = Saturate(@)] ELSE okClaims
            /\ maxClaimed' = IF r.err = "Ok" THEN [maxClaimed EXCEPT ![c] = Max(@, a.tx_id)] ELSE maxClaimed
            /\ UNCHANGED <<gateway, signer_registries, okConsumes, call>>

\* TX2: process_message
ProcessMessage ==
    \E a \in MessageArgs, proj \in ProjectChoices :
        LET k == KeyOf(a)
            r == process_message(gateway, tx_id_pdas[k],
                                 signer_registries[<<"VIA", a.dest_chain_id>>],
                                 signer_registries[<<"Chain", a.source_chain_id>>],
                                 ProjectAccount(proj), a)
        IN  /\ tx_id_pdas' = [tx_id_pdas EXCEPT ![k] = r.tx_id_pda]
            /\ last' = [op |-> "process_message", key |-> k, result |-> r.err]
            /\ okConsumes' = IF r.err = "Ok" THEN [okConsumes EXCEPT ![k] = Saturate(@)] ELSE okConsumes
            /\ UNCHANGED <<gateway, counter_pdas, signer_registries, okClaims, maxClaimed, call>>

\* admin switch: set_system_enabled
SetSystemEnabled ==
    \E authority \in Authorities, enabled \in BOOLEAN :
        LET r == set_system_enabled(gateway, authority, enabled)
        IN  /\ gateway' = r.gateway
            /\ last' = [op |-> "set_system_enabled", key |-> NoKey, result |-> r.err]
            /\ UNCHANGED <<tx_id_pdas, counter_pdas, signer_registries, okClaims, okConsumes, maxClaimed, call>>

\* registry mutation: set_registry_enabled
SetRegistryEnabled ==
    \E rk \in ToggleKeys, authority \in Authorities, enabled \in BOOLEAN :
        LET r == set_registry_enabled(signer_registries[rk], gateway, authority, enabled)
        IN  /\ signer_registries' = [signer_registries EXCEPT ![rk] = r.registry]
            /\ last' = [op |-> "set_registry_enabled", key |-> NoKey, result |-> r.err]
            /\ UNCHANGED <<gateway, tx_id_pdas, counter_pdas, okClaims, okConsumes, maxClaimed, call>>

Next == CreateTxPda \/ ProcessMessage \/ SetSystemEnabled \/ SetRegistryEnabled

Spec == Init /\ [][Next]_vars

\* ---------------------------------------- the functions of utils/signature.rs
\* A second specification: one call of validate_three_layer_signatures, or
\* of create_tx_pda on an absent key (which runs validate_signatures_tx1),
\* on arguments drawn from AuthCalls.
InitAuth == Deployed /\ call \in AuthCalls

\* process_message's call of validate_three_layer_signatures
Authorize ==
    /\ call.op = "submitted"
    /\ call' = [call EXCEPT !.op = "authorize",
                            !.out = validate_three_layer_signatures(call.signatures, call.message_hash,
                                        call.via_registry, call.chain_registry, call.project_registry, call.ixs)]
    /\ UNCHANGED <<gateway, tx_id_pdas, counter_pdas, signer_registries, last, okClaims, okConsumes, maxClaimed>>

\* create_tx_pda of AuthEnvelope with the call's batch, on an absent key
ClaimAbsent ==
    /\ call.op = "submitted"
    /\ call' = [call EXCEPT !.op = "create_tx_pda",
                            !.out = [err |-> create_tx_pda(NoAccount, NoAccount, AuthArgs(call)).err,
                                     result |-> ValidationResult_new]]
    /\ UNCHANGED <<gateway, tx_id_pdas, counter_pdas, signer_registries, last, okClaims, okConsumes, maxClaimed>>

NextAuth == Authorize \/ ClaimAbsent

SpecAuth == InitAuth /\ [][NextAuth]_vars

\* ----------------------------- the instructions of instructions/signer_registry.rs
\* A third specification: the registry instructions on one registry address
\* that is empty after deployment, next to one claim, one consume and the
\* admin switch.
\* initialize_gateway is open to every signer: a gateway of another chain id
\* whose authority is Mallory
MalloryGateway == initialize_gateway(Mallory, 0)
\* the gateway account a caller passes along with a registry instruction
CallerGateways == {gateway, MalloryGateway}
GatewayOf(authority) == IF authority = gateway.authority THEN gateway ELSE MalloryGateway
\* the registry address the instructions are called on
MutatedKeys == {<<"Project", 0>>}
\* signer lists: empty, one, two, one identity twice, the cap, one above it
TenSigners == <<P1, P2, "S3", "S4", "S5", "S6", "S7", "S8", "S9", "S10">>
SignerLists == {<<>>, <<P1>>, <<P1, P2>>, <<P1, P1>>, TenSigners, Append(TenSigners, "S11")}
Thresholds == {0, 1, 2}
\* the identities add_signer and remove_signer are called with
Identities == {P1, X}
\* the envelope claimed and consumed next to the registry instructions
RegistryArgs == AuthEnvelope @@ WithProofs(Signatures(BatchHonest, Digest(AuthEnvelope)))

InitRegistry == Deployed /\ call = NoCall

\* the account written by a registry instruction, and its outcome
RegistryStep(op, rk, r) ==
    /\ signer_registries' = [signer_registries EXCEPT ![rk] = r.registry]
    /\ last' = [op |-> op, key |-> NoKey, result |-> r.err]
    /\ UNCHANGED <<gateway, tx_id_pdas, counter_pdas, okClaims, okConsumes, maxClaimed, call>>

InitializeSignerRegistry ==
    \E rk \in MutatedKeys, authority \in Authorities, gw \in CallerGateways,
       initial_signers \in SignerLists, required_signatures \in Thresholds :
        RegistryStep("initialize_signer_registry", rk,
                     initialize_signer_registry_ix(signer_registries[rk], gw, authority, rk[1], rk[2],
                                                   initial_signers, required_signatures))

UpdateSigners ==
    \E rk \in MutatedKeys, authority \in Authorities, gw \in CallerGateways,
       new_signers \in SignerLists, new_required_signatures \in Thresholds :
        RegistryStep("update_signers", rk,
                     update_signers(signer_registries[rk], gw, authority, new_signers, new_required_signatures))

AddSigner ==
    \E rk \in MutatedKeys, authority \in Authorities, gw \in CallerGateways, new_signer \in Identities :
        RegistryStep("add_signer", rk, add_signer(signer_registries[rk], gw, authority, new_signer))

RemoveSigner ==
    \E rk \in MutatedKeys, authority \in Authorities, gw \in CallerGateways, signer_to_remove \in Identities :
        RegistryStep("remove_signer", rk, remove_signer(signer_registries[rk], gw, authority, signer_to_remove))

UpdateThreshold ==
    \E rk \in MutatedKeys, authority \in Authorities, gw \in CallerGateways, new_threshold \in Thresholds :
        RegistryStep("update_threshold", rk, update_threshold(signer_registries[rk], gw, authority, new_threshold))

SetRegistryEnabledAt ==
    \E rk \in MutatedKeys, authority \in Authorities, gw \in CallerGateways, enabled \in BOOLEAN :
        RegistryStep("set_registry_enabled", rk, set_registry_enabled(signer_registries[rk], gw, authority, enabled))

\* create_tx_pda of RegistryArgs
CreateTxPdaOnce ==
    LET a == RegistryArgs
        k == KeyOf(a)
        c == a.source_chain_id
        r == create_tx_pda(tx_id_pdas[k], counter_pdas[c], a)
    IN  /\ tx_id_pdas' = [tx_id_pdas EXCEPT ![k] = r.tx_id_pda]
        /\ counter_pdas' = [counter_pdas EXCEPT ![c] = r.counter_pda]
        /\ last' = [op |-> "create_tx_pda", key |-> k, result |-> r.err]
        /\ okClaims' = IF r.err = "Ok" THEN [okClaims EXCEPT ![k] = Saturate(@)] ELSE okClaims
        /\ maxClaimed' = IF r.err = "Ok" THEN [maxClaimed EXCEPT ![c] = Max(@, a.tx_id)] ELSE maxClaimed
        /\ UNCHANGED <<gateway, signer_registries, okConsumes, call>>

\* process_message of RegistryArgs, with or without the mutated registry as
\* project registry
ProcessMessageOnce ==
    \E proj \in {None} \cup {Some(rk) : rk \in MutatedKeys} :
        LET a == RegistryArgs
            k == KeyOf(a)
            r == process_message(gateway, tx_id_pdas[k],
                                 signer_registries[<<"VIA", a.dest_chain_id>>],
                                 signer_registries[<<"Chain", a.source_chain_id>>],
                                 ProjectAccount(proj), a)
        IN  /\ tx_id_pdas' = [tx_id_pdas EXCEPT ![k] = r.tx_id_pda]
            /\ last' = [op |-> "process_message", key |-> k, result |-> r.err]
            /\ okConsumes' = IF r.err = "Ok" THEN [okConsumes EXCEPT ![k] = Saturate(@)] ELSE okConsumes
            /\ UNCHANGED <<gateway, counter_pdas, signer_registries, okClaims, maxClaimed, call>>

NextRegistry ==
    \/ InitializeSignerRegistry \/ UpdateSigners \/ AddSigner \/ RemoveSigner
    \/ UpdateThreshold \/ SetRegistryEnabledAt
    \/ CreateTxPdaOnce \/ ProcessMessageOnce \/ SetSystemEnabled

SpecRegistry == InitRegistry /\ [][NextRegistry]_vars

\* ------------------------------------------- the functions of utils/hash.rs
\* A fourth specification: create_cross_chain_hash on two envelopes.
MaxFieldLen == 2
\* byte strings of one repeated byte, up to MaxFieldLen bytes: moving a byte
\* from a field to its neighbour gives another envelope of the same bytes
HashFields == {Repeat(n, 1) : n \in 0..MaxFieldLen}
\* tx_id 256 has its low byte zero and its second byte set
HashTxIds == {0, 256}
HashEnvelopes ==
    [tx_id : HashTxIds, source_chain_id : ChainIds, dest_chain_id : ChainIds,
     sender : HashFields, recipient : HashFields, on_chain_data : HashFields, off_chain_data : HashFields]
\* the first envelope of a pair: its numbers fixed, its byte fields free
LeftEnvelopes == {e \in HashEnvelopes : e.tx_id = 0 /\ e.source_chain_id = 0 /\ e.dest_chain_id = LocalChain}
NotHashed == [err |-> "none", hash |-> ZeroHash]
HashCalls ==
    {[op |-> "envelopes", left |-> l, right |-> r, out |-> [left |-> NotHashed, right |-> NotHashed]] :
        l \in LeftEnvelopes, r \in HashEnvelopes}
HashOf(e) ==
    create_cross_chain_hash(e.tx_id, e.source_chain_id, e.dest_chain_id,
                            e.sender, e.recipient, e.on_chain_data, e.off_chain_data)

InitHash == Deployed /\ call \in HashCalls

CreateCrossChainHash ==
    /\ call.op = "envelopes"
    /\ call' = [call EXCEPT !.op = "hashed", !.out = [left |-> HashOf(call.left), right |-> HashOf(call.right)]]
    /\ UNCHANGED <<gateway, tx_id_pdas, counter_pdas, signer_registries, last, okClaims, okConsumes, maxClaimed>>

NextHash == CreateCrossChainHash

SpecHash == InitHash /\ [][NextHash]_vars

\* ------------------------------------- the accounts of process_message
\* A fifth specification: claims and consumes of the envelopes of one key,
\* the consume on registry accounts of the caller's choice, while the
\* authority adds a signer to, and removes it from, the registries of the
\* other chain ids.  `call` keeps the envelope the live record was claimed
\* with and the envelope of the latest consume.
ScopeKey == <<0, 0>>
ScopeEnvelopes ==
    {[AuthEnvelope EXCEPT !.dest_chain_id = d, !.recipient = r] : d \in ChainIds, r \in {<<2>>, <<9>>}}
\* the registries no consume of ScopeKey for the local chain is scoped to
ElsewhereKeys == {<<"VIA", 0>>, <<"Chain", 1>>}
ScopeShapes == {BatchHonest, <<Honest(X), Honest(P1), Honest(C1)>>}
\* the addresses a caller passes as <<via_registry, chain_registry>>: the
\* registries of either chain id, the two swapped, one of them empty
CallerRegistryAccounts ==
    {<<<<"VIA", v>>, <<"Chain", c>>>> : v \in ChainIds, c \in ChainIds}
    \cup {<<<<"Chain", 0>>, <<"VIA", LocalChain>>>>, <<<<"VIA", LocalChain>>, <<"Project", 0>>>>}
ScopeArgs(e, shape) == e @@ WithProofs(Signatures(shape, Digest(e)))

InitScope == Deployed /\ call = [op |-> "scope", claimed |-> None, consumed |-> None]

AddSignerElsewhere ==
    \E rk \in ElsewhereKeys :
        LET r == add_signer(signer_registries[rk], gateway, Admin, X)
        IN  /\ signer_registries' = [signer_registries EXCEPT ![rk] = r.registry]
            /\ last' = [op |-> "add_signer", key |-> NoKey, result |-> r.err]
            /\ UNCHANGED <<gateway, tx_id_pdas, counter_pdas, okClaims, okConsumes, maxClaimed, call>>

RemoveSignerElsewhere ==
    \E rk \in ElsewhereKeys :
        LET r == remove_signer(signer_registries[rk], gateway, Admin, X)
        IN  /\ signer_registries' = [signer_registries EXCEPT ![rk] = r.registry]
            /\ last' = [op |-> "remove_signer", key |-> NoKey, result |-> r.err]
            /\ UNCHANGED <<gateway, tx_id_pdas, counter_pdas, okClaims, okConsumes, maxClaimed, call>>

CreateTxPdaScoped ==
    \E e \in ScopeEnvelopes :
        LET a == ScopeArgs(e, <<Honest(C1)>>)
            k == KeyOf(a)
            c == a.source_chain_id
            r == create_tx_pda(tx_id_pdas[k], counter_pdas[c], a)
        IN  /\ tx_id_pdas' = [tx_id_pdas EXCEPT ![k] = r.tx_id_pda]
            /\ counter_pdas' = [counter_pdas EXCEPT ![c] = r.counter_pda]
            /\ last' = [op |-> "create_tx_pda", key |-> k, result |-> r.err]
            /\ okClaims' = IF r.err = "Ok" THEN [okClaims EXCEPT ![k] = Saturate(@)] ELSE okClaims
            /\ maxClaimed' = IF r.err = "Ok" THEN [maxClaimed EXCEPT ![c] = Max(@, a.tx_id)] ELSE maxClaimed
            /\ call' = IF r.err = "Ok" THEN [call EXCEPT !.claimed = e] ELSE call
            /\ UNCHANGED <<gateway, signer_registries, okConsumes>>

ProcessMessageScoped ==
    \E e \in ScopeEnvelopes, shape \in ScopeShapes, keys \in CallerRegistryAccounts :
        LET a == ScopeArgs(e, shape)
            k == KeyOf(a)
            r == process_message_ix(gateway, tx_id_pdas[k], keys[1], keys[2], None, a, signer_registries)
        IN  /\ tx_id_pdas' = [tx_id_pdas EXCEPT ![k] = r.tx_id_pda]
            /\ last' = [op |-> "process_message", key |-> k, result |-> r.err]
            /\ okConsumes' = IF r.err = "Ok" THEN [okConsumes EXCEPT ![k] = Saturate(@)] ELSE okConsumes
            /\ call' = [call EXCEPT !.consumed = e, !.claimed = IF r.err = "Ok" THEN None ELSE @]
            /\ UNCHANGED <<gateway, counter_pdas, signer_registries, okClaims, maxClaimed>>

\* process_message on the scoped platform and chain registries, with the
\* account at an address of the caller's choice as project_registry: the
\* field is Option<Account<SignerRegistry>> and carries no constraint
ProcessMessageWithProject ==
    \E e \in ScopeEnvelopes, shape \in ScopeShapes, project_key \in RegistryKeys :
        LET a == ScopeArgs(e, shape)
            k == KeyOf(a)
            r == process_message_ix(gateway, tx_id_pdas[k], <<"VIA", a.dest_chain_id>>,
                                    <<"Chain", a.source_chain_id>>, signer_registries[project_key], a,
                                    signer_registries)
        IN  /\ tx_id_pdas' = [tx_id_pdas EXCEPT ![k] = r.tx_id_pda]
            /\ last' = [op |-> "process_message", key |-> k, result |-> r.err]
            /\ okConsumes' = IF r.err = "Ok" THEN [okConsumes EXCEPT ![k] = Saturate(@)] ELSE okConsumes
            /\ call' = [call EXCEPT !.consumed = e, !.claimed = IF r.err = "Ok" THEN None ELSE @]
            /\ UNCHANGED <<gateway, counter_pdas, signer_registries, okClaims, maxClaimed>>

NextScope ==
    \/ AddSignerElsewhere \/ RemoveSignerElsewhere \/ CreateTxPdaScoped \/ ProcessMessageScoped
    \/ ProcessMessageWithProject

SpecScope == InitScope /\ [][NextScope]_vars

\* ------------------------------------------------------------------ claims
\* the outcome of each instruction on the current state
Claim(a) == create_tx_pda(tx_id_pdas[KeyOf(a)], counter_pdas[a.source_chain_id], a)
Consume(a, proj) ==
    process_message(gateway, tx_id_pdas[KeyOf(a)],
                    signer_registries[<<"VIA", a.dest_chain_id>>],
                    signer_registries[<<"Chain", a.source_chain_id>>],
                    ProjectAccount(proj), a)
Live(k) == tx_id_pdas[k] # NoAccount
\* the error kinds of the specification, in the program's terms
AlreadyClaimed == "AccountAlreadyInUse"
NoSuchClaim == {"AccountNotInitialized:tx_id_pda", "InvalidTxId"}
AuthErrors ==
    {"InvalidSignature", "UnauthorizedSigner", "DuplicateSigner", "InsufficientVIASignatures",
     "InsufficientChainSignatures", "InsufficientProjectSignatures"}

C3_CreateIfAbsent ==
    \A a \in MessageArgs :
        AcceptableProof(a) =>
            IF Live(KeyOf(a))
            THEN /\ Claim(a).err = AlreadyClaimed
                 /\ Claim(a).tx_id_pda = tx_id_pdas[KeyOf(a)]
                 /\ Claim(a).counter_pda = counter_pdas[a.source_chain_id]
            ELSE /\ Claim(a).err = "Ok"
                 /\ Claim(a).tx_id_pda = [tx_id |-> a.tx_id]
\* a create_tx_pda won an Absent key: its record is live
C3_ClaimWon ==
    /\ last.op = "create_tx_pda" /\ last.result = "Ok"
    /\ tx_id_pdas[last.key] = [tx_id |-> last.key[2]]

\* C4: on a Claimed key a process_message with fully authorized arguments
\* succeeds and destroys the record (so of several identical ones exactly
\* one succeeds); on a key with no live record process_message fails with
\* NoSuchClaim.
C4_ExactlyOneConsume ==
    \A a \in MessageArgs, proj \in ProjectChoices :
        /\ Live(KeyOf(a)) /\ FullyAuthorized(a, proj) =>
              Consume(a, proj).err = "Ok" /\ Consume(a, proj).tx_id_pda = NoAccount
        /\ ~Live(KeyOf(a)) => Consume(a, proj).err \in NoSuchClaim

C6_AuthFailureThenRetry ==
    /\ \A a \in MessageArgs, proj \in ProjectChoices :
          Consume(a, proj).err \in AuthErrors =>
              Live(KeyOf(a)) /\ Consume(a, proj).tx_id_pda = tx_id_pdas[KeyOf(a)]
    /\ last.op = "process_message" /\ last.result \in AuthErrors =>
          \A a \in MessageArgs, proj \in ProjectChoices :
              KeyOf(a) = last.key /\ FullyAuthorized(a, proj) => Consume(a, proj).err = "Ok"

\* C7: for every source chain (0 included) highest_tx_id_seen never
\* decreases: no create_tx_pda lowers the watermark of an existing counter.
C7_WatermarkNeverDecreases ==
    \A a \in MessageArgs :
        counter_pdas[a.source_chain_id] # NoAccount =>
            /\ Claim(a).counter_pda # NoAccount
            /\ Claim(a).counter_pda.highest_tx_id_seen >= counter_pdas[a.source_chain_id].highest_tx_id_seen

\* C8: the watermark of a source chain equals the greatest tx_id among the
\* successful claims on it; a chain without a successful claim has no counter.
C8_WatermarkIsMaxClaimed ==
    \A c \in ChainIds :
        IF maxClaimed[c] = -1 THEN counter_pdas[c] = NoAccount
        ELSE counter_pdas[c] # NoAccount /\ counter_pdas[c].highest_tx_id_seen = maxClaimed[c]

\* C9: the watermark never gates: the outcome of create_tx_pda is the same
\* for every value the counter could hold, and an acceptable claim of an
\* Absent key succeeds also when its tx_id is below the watermark.
\* (process_message is handed no counter account at all.)
CounterValues ==
    {NoAccount} \cup {[source_chain_id |-> c, highest_tx_id_seen |-> h] : c \in ChainIds, h \in TxIds}
C9_WatermarkNeverGates ==
    \A a \in MessageArgs :
        /\ \A w \in CounterValues : create_tx_pda(tx_id_pdas[KeyOf(a)], w, a).err = Claim(a).err
        /\ AcceptableProof(a) /\ ~Live(KeyOf(a)) => Claim(a).err = "Ok"
\* a claim with a tx_id below the watermark of its chain succeeded
C9_ClaimBelowWatermark ==
    /\ last.op = "create_tx_pda" /\ last.result = "Ok"
    /\ last.key[2] < counter_pdas[last.key[1]].highest_tx_id_seen

\* C10 as stated: with the gateway disabled process_message fails with
\* SystemDisabled whatever the other arguments and the state are.
C10_DisabledAlwaysSystemDisabled ==
    \A a \in MessageArgs, proj \in ProjectChoices :
        ~gateway.system_enabled =>
            Consume(a, proj).err = "SystemDisabled" /\ Consume(a, proj).tx_id_pda = tx_id_pdas[KeyOf(a)]
\* C10 amended: with the gateway disabled process_message fails and leaves
\* the record as it is; the failure is SystemDisabled whenever the record
\* and the registries it names exist (whatever dest_chain_id, the field
\* sizes and the signatures are), and the account error of the first
\* missing account otherwise (NoSuchClaim for a missing record).
C10_DisabledConsumeFails ==
    \A a \in MessageArgs, proj \in ProjectChoices :
        ~gateway.system_enabled =>
            /\ Consume(a, proj).err # "Ok"
            /\ Consume(a, proj).tx_id_pda = tx_id_pdas[KeyOf(a)]
            /\ Consume(a, proj).err =
                  IF ~Live(KeyOf(a)) THEN "AccountNotInitialized:tx_id_pda"
                  ELSE IF proj # None /\ ProjectAccount(proj) = NoAccount
                       THEN "AccountNotInitialized:project_registry"
                  ELSE "SystemDisabled"
\* with the gateway disabled a process_message on a claimed key was refused
\* with SystemDisabled
C10_RefusedWhileDisabled ==
    /\ ~gateway.system_enabled
    /\ last.op = "process_message" /\ last.result = "SystemDisabled"
    /\ Live(last.key)

\* C11: create_tx_pda does not read the gateway's enable flag: a step that
\* changes the flag leaves, for every argument list, the outcome of
\* create_tx_pda and its effect on the record and the counter as they were.
C11_ClaimIgnoresEnableFlag ==
    [][gateway'.system_enabled # gateway.system_enabled =>
          \A a \in MessageArgs : Claim(a)' = Claim(a)]_vars
\* a create_tx_pda succeeded while the gateway was disabled
C11_ClaimedWhileDisabled ==
    /\ ~gateway.system_enabled
    /\ last.op = "create_tx_pda" /\ last.result = "Ok"
    /\ Live(last.key)

C14_ClaimBatchBounds ==
    \A a \in MessageArgs :
        Len(a.signatures) < MIN_SIGNATURES_REQUIRED \/ Len(a.signatures) > MAX_SIGNATURES_PER_MESSAGE
        => /\ Claim(a).err # "Ok"
           /\ Claim(a).tx_id_pda = tx_id_pdas[KeyOf(a)]

\* ---- vocabulary for the claims about validate_three_layer_signatures
CallSigners == {call.signatures[i].signer : i \in 1..Len(call.signatures)}
CallPositions == 1..Len(call.signatures)
\* verify_single as specified, for position i of the call's batch
CallVerifies(i) == Verifies(call.signatures[i], call.message_hash, call.ixs)
InBounds ==
    Len(call.signatures) >= MIN_SIGNATURES_REQUIRED /\ Len(call.signatures) <= MAX_SIGNATURES_PER_MESSAGE
RegistriesEnabled ==
    /\ call.via_registry.enabled /\ call.chain_registry.enabled
    /\ call.project_registry # None => call.project_registry.enabled
SignersDistinct == Cardinality(CallSigners) = Len(call.signatures)
MemberOfSome(s) ==
    \/ s \in Members(call.via_registry)
    \/ s \in Members(call.chain_registry)
    \/ call.project_registry # None /\ s \in Members(call.project_registry)
\* how many of the signers in S are members of the registry (0 when none is supplied)
CountIn(registry, S) == IF registry = None THEN 0 ELSE Cardinality(S \cap Members(registry))
\* the signers in S meet the threshold of every supplied registry
ThresholdsMetBy(S) ==
    /\ CountIn(call.via_registry, S) >= call.via_registry.required_signatures
    /\ CountIn(call.chain_registry, S) >= call.chain_registry.required_signatures
    /\ call.project_registry # None =>
          CountIn(call.project_registry, S) >= call.project_registry.required_signatures
\* a batch the specified authorize accepts
WellSigned ==
    /\ InBounds /\ RegistriesEnabled /\ SignersDistinct
    /\ \A i \in CallPositions : CallVerifies(i)
    /\ \A sg \in CallSigners : MemberOfSome(sg)
    /\ ThresholdsMetBy(CallSigners)

\* C13: validate_three_layer_signatures fails with TooFewSignatures for
\* every batch of fewer than 2 signatures, the empty batch included, and
\* with TooManySignatures for every batch of more than 8.
C13_BatchSizeErrors ==
    call.op = "authorize" =>
        /\ Len(call.signatures) < 2 => call.out.err = "TooFewSignatures"
        /\ Len(call.signatures) > 8 => call.out.err = "TooManySignatures"

\* C15: for a batch of 2 to 8 signatures and an Absent key, create_tx_pda
\* succeeds exactly when at least one signature of the batch verifies
\* against the digest, and fails with InvalidSignature when none does.
C15_ClaimAcceptedIffOneVerifies ==
    call.op = "create_tx_pda" /\ InBounds =>
        /\ call.out.err = "Ok" <=> \E i \in CallPositions : CallVerifies(i)
        /\ call.out.err # "Ok" => call.out.err = "InvalidSignature"

\* C16: validate_three_layer_signatures fails with SignerRegistryDisabled
\* on every batch of 2 to 8 signatures when the platform registry, the chain
\* registry or a supplied project registry is disabled, and never succeeds
\* then; is_signer is true only for an identity present in an enabled registry.
C16_DisabledRegistryRefused ==
    /\ call.op = "authorize" /\ ~RegistriesEnabled =>
          /\ call.out.err # "Ok"
          /\ InBounds => call.out.err = "SignerRegistryDisabled"
    /\ call.op # "none" =>
          \A registry \in {call.via_registry, call.chain_registry, call.project_registry} \ {None} :
              \A sg \in {P1, P2, C1, D, X} :
                  is_signer(registry, sg) <=> registry.enabled /\ sg \in Members(registry)
\* a batch whose signatures all verify was refused because the chain
\* registry, of which a signer is a member, is disabled
C16_RefusedForDisabledChain ==
    /\ call.op = "authorize" /\ call.out.err = "SignerRegistryDisabled"
    /\ call.via_registry.enabled /\ ~call.chain_registry.enabled
    /\ \A i \in CallPositions : CallVerifies(i)
    /\ C1 \in CallSigners

\* C17: validate_three_layer_signatures fails with DuplicateSigner when a
\* signer identity appears at two positions of a batch whose signatures all
\* verify and whose signers are all members of a registry.
C17_DuplicateSignerRefused ==
    /\ call.op = "authorize" /\ InBounds /\ RegistriesEnabled /\ ~SignersDistinct
    /\ \A i \in CallPositions : CallVerifies(i)
    /\ \A sg \in CallSigners : MemberOfSome(sg)
    => call.out.err = "DuplicateSigner"

\* C18: validate_three_layer_signatures fails with InvalidSignature when
\* some signature of a batch of distinct, authorized signers does not verify
\* against the digest, also when the signatures that verify meet every
\* threshold on their own.
C18_InvalidSignatureAborts ==
    /\ call.op = "authorize" /\ InBounds /\ RegistriesEnabled /\ SignersDistinct
    /\ \A sg \in CallSigners : MemberOfSome(sg)
    /\ \E i \in CallPositions : ~CallVerifies(i)
    => call.out.err = "InvalidSignature"
\* a batch with one forged signature was refused although the signers whose
\* signatures verify meet every threshold
C18_ForgedAmongSufficient ==
    /\ call.op = "authorize" /\ call.out.err = "InvalidSignature"
    /\ InBounds /\ RegistriesEnabled /\ SignersDistinct
    /\ \A sg \in CallSigners : MemberOfSome(sg)
    /\ \E i \in CallPositions : ~CallVerifies(i)
    /\ ThresholdsMetBy({call.signatures[i].signer : i \in {j \in CallPositions : CallVerifies(j)}})

\* C19: validate_three_layer_signatures fails with UnauthorizedSigner when
\* a signer of a batch of distinct signers, every signature verifying, is a
\* member of none of the supplied registries.
C19_UnauthorizedSignerRefused ==
    /\ call.op = "authorize" /\ InBounds /\ RegistriesEnabled /\ SignersDistinct
    /\ \A i \in CallPositions : CallVerifies(i)
    /\ \E sg \in CallSigners : ~MemberOfSome(sg)
    => call.out.err = "UnauthorizedSigner"

\* C20: on a batch the specified authorize accepts,
\* validate_three_layer_signatures succeeds and returns, for each tier, the
\* number of batch signers that are members of that tier's registry and, as
\* total, the number of batch signers that are members of some tier.
C20_CountsPerTier ==
    call.op = "authorize" /\ WellSigned =>
        /\ call.out.err = "Ok"
        /\ call.out.result =
              [via_signatures |-> CountIn(call.via_registry, CallSigners),
               chain_signatures |-> CountIn(call.chain_registry, CallSigners),
               project_signatures |-> CountIn(call.project_registry, CallSigners),
               total_valid |-> Cardinality(CallSigners)]

\* C21: when every signature of the batch verifies and the signers are
\* distinct and each a member of some supplied registry, but a threshold is
\* not met, validate_three_layer_signatures fails with
\* InsufficientVIASignatures if the platform count is below the platform
\* threshold, otherwise with InsufficientChainSignatures if the chain count
\* is below the chain threshold, otherwise with InsufficientProjectSignatures
\* (a tier checked only when a project registry is supplied).
C21_ThresholdErrors ==
    /\ call.op = "authorize" /\ InBounds /\ RegistriesEnabled /\ SignersDistinct
    /\ \A i \in CallPositions : CallVerifies(i)
    /\ \A sg \in CallSigners : MemberOfSome(sg)
    /\ ~ThresholdsMetBy(CallSigners)
    => call.out.err =
          IF CountIn(call.via_registry, CallSigners) < call.via_registry.required_signatures
          THEN "InsufficientVIASignatures"
          ELSE IF CountIn(call.chain_registry, CallSigners) < call.chain_registry.required_signatures
          THEN "InsufficientChainSignatures"
          ELSE "InsufficientProjectSignatures"

\* C22: with the deployed registries (platform <<P1, P2>> threshold 2, chain
\* <<C1>> threshold 1) and the gateway enabled, create_tx_pda of an envelope
\* with one proved signature of C1 succeeds on an absent key, and
\* process_message of a claimed envelope with proved signatures of P1, P2
\* and C1 succeeds with via_signatures = 2 and chain_signatures = 1 and
\* closes the record.
C22_EndToEnd ==
    \A e \in Envelopes :
        LET claim == e @@ WithProofs(Signatures(<<Honest(C1)>>, Digest(e)))
            consume == e @@ WithProofs(Signatures(BatchHonest, Digest(e)))
            enabled == /\ gateway.system_enabled
                       /\ signer_registries[<<"VIA", e.dest_chain_id>>].enabled
                       /\ signer_registries[<<"Chain", e.source_chain_id>>].enabled
        IN  /\ SizesOk(e) /\ ~Live(KeyOf(e)) => Claim(claim).err = "Ok"
            /\ SizesOk(e) /\ e.dest_chain_id = gateway.chain_id /\ enabled
               /\ Live(KeyOf(e)) /\ okClaims[KeyOf(e)] > 0 =>
                  /\ Consume(consume, None).err = "Ok"
                  /\ Consume(consume, None).result.via_signatures = 2
                  /\ Consume(consume, None).result.chain_signatures = 1
                  /\ Consume(consume, None).tx_id_pda = NoAccount

\* the registry instructions, called by the registry's own authority with
\* that authority's gateway
Exists(rk) == signer_registries[rk] # NoAccount
RemoveByAuthority(rk, id) ==
    remove_signer(signer_registries[rk], GatewayOf(signer_registries[rk].authority),
                  signer_registries[rk].authority, id)
AddByAuthority(rk, id) ==
    add_signer(signer_registries[rk], GatewayOf(signer_registries[rk].authority),
               signer_registries[rk].authority, id)

\* C23: every existing registry satisfies
\* 1 <= required_signatures <= |signers| <= 10, |signers| being the number
\* of signer identities it holds.
C23_ThresholdWithinIdentities ==
    \A rk \in RegistryKeys :
        Exists(rk) =>
            /\ 1 <= signer_registries[rk].required_signatures
            /\ signer_registries[rk].required_signatures <= Cardinality(Members(signer_registries[rk]))
            /\ Cardinality(Members(signer_registries[rk])) <= MAX_SIGNERS_PER_REGISTRY

\* C24: remove_signer of a present identity, when the threshold would exceed
\* the remaining signer count, fails with ThresholdTooHigh (the
\* specification's ThresholdUnsatisfiable) and leaves the registry as it
\* was; remove_signer of an identity that is not present fails with
\* UnauthorizedSigner (the specification's SignerNotFound) and changes
\* nothing.
C24_RemoveSignerRefusals ==
    \A rk \in MutatedKeys, id \in Identities \cup {P2} :
        Exists(rk) =>
            /\ id \in Members(signer_registries[rk])
               /\ signer_registries[rk].required_signatures > Len(signer_registries[rk].signers) - 1 =>
                  /\ RemoveByAuthority(rk, id).err = "ThresholdTooHigh"
                  /\ RemoveByAuthority(rk, id).registry = signer_registries[rk]
            /\ id \notin Members(signer_registries[rk]) =>
                  /\ RemoveByAuthority(rk, id).err = "UnauthorizedSigner"
                  /\ RemoveByAuthority(rk, id).registry = signer_registries[rk]
\* a removal was refused because the threshold equals the signer count
C24_RemovalRefused ==
    \E rk \in MutatedKeys :
        /\ last.op = "remove_signer" /\ last.result = "ThresholdTooHigh"
        /\ Exists(rk) /\ signer_registries[rk].required_signatures = Len(signer_registries[rk].signers)
        /\ \E id \in Identities : id \in Members(signer_registries[rk])

\* C25: add_signer fails with DuplicateSigner when the identity is in the
\* registry and with TooManySignatures (the specification's TooManySigners)
\* when the registry holds 10 signers, the registry unchanged in both
\* cases; otherwise it appends that identity and leaves every other field,
\* the threshold and the enabled flag among them, as it was.
C25_AddSignerOutcomes ==
    \A rk \in MutatedKeys, id \in Identities \cup {P2} :
        Exists(rk) =>
            LET registry == signer_registries[rk]
                r == AddByAuthority(rk, id)
            IN  IF id \in Members(registry)
                THEN r.err = "DuplicateSigner" /\ r.registry = registry
                ELSE IF Len(registry.signers) >= MAX_SIGNERS_PER_REGISTRY
                THEN r.err = "TooManySignatures" /\ r.registry = registry
                ELSE /\ r.err = "Ok"
                     /\ r.registry = [registry EXCEPT !.signers = Append(@, id)]
                     /\ Members(r.registry) = Members(registry) \cup {id}
\* an addition was refused at the cap, and one was refused as a duplicate
C25_AddRefusedAtCap ==
    \E rk \in MutatedKeys :
        /\ last.op = "add_signer" /\ last.result = "TooManySignatures"
        /\ Exists(rk) /\ Len(signer_registries[rk].signers) = MAX_SIGNERS_PER_REGISTRY
        /\ \E id \in Identities : AddByAuthority(rk, id).err = "DuplicateSigner"

\* C26: update_signers, add_signer, remove_signer, update_threshold and
\* set_registry_enabled on an existing registry, signed by an identity other
\* than the registry's authority, fail and leave the registry unchanged,
\* whichever gateway account is passed; and a step of create_tx_pda,
\* process_message or set_system_enabled leaves every registry unchanged.
C26_OnlyAuthorityMutates ==
    /\ [](\A rk \in MutatedKeys, authority \in Authorities, gw \in CallerGateways :
            Exists(rk) /\ authority # signer_registries[rk].authority =>
                LET registry == signer_registries[rk]
                    refused(r) == r.err # "Ok" /\ r.registry = registry
                IN  /\ \A l \in SignerLists, t \in Thresholds : refused(update_signers(registry, gw, authority, l, t))
                    /\ \A id \in Identities : refused(add_signer(registry, gw, authority, id))
                    /\ \A id \in Identities : refused(remove_signer(registry, gw, authority, id))
                    /\ \A t \in Thresholds : refused(update_threshold(registry, gw, authority, t))
                    /\ \A e \in BOOLEAN : refused(set_registry_enabled(registry, gw, authority, e)))
    /\ [][last'.op \in {"create_tx_pda", "process_message", "set_system_enabled"} =>
              signer_registries' = signer_registries]_vars
\* Mallory's mutation of Admin's registry was refused, with her own gateway
\* passing the gateway constraint
C26_StrangerRefused ==
    \E rk \in MutatedKeys :
        /\ Exists(rk) /\ signer_registries[rk].authority = Admin
        /\ last.op \in {"update_signers", "add_signer", "remove_signer", "update_threshold", "set_registry_enabled"}
        /\ last.result = "UnauthorizedAuthority"
        /\ has_one_authority(MalloryGateway, Mallory) = "Ok"
        /\ update_threshold(signer_registries[rk], MalloryGateway, Mallory, 1).err = "UnauthorizedAuthority"

C28_EncodingInjective ==
    call.op = "hashed" =>
        /\ call.out.left.err = "Ok" /\ call.out.right.err = "Ok"
        /\ call.out.left = HashOf(call.left)
        /\ (call.left = call.right) <=> (call.out.left.hash.keccak = call.out.right.hash.keccak)
        /\ (call.out.left.hash = call.out.right.hash) => call.left = call.right
\* two envelopes hashed apart that differ by one byte moved from the sender
\* to the recipient
C28_ByteMovedAcrossFields ==
    /\ call.op = "hashed"
    /\ call.left.sender = <<1>> /\ call.left.recipient = <<>>
    /\ call.right = [call.left EXCEPT !.sender = <<>>, !.recipient = <<1>>]
    /\ call.out.left.hash # call.out.right.hash

\* process_message of envelope e with the batch `shape`, on the registry
\* accounts at via_key and chain_key and no project registry
ConsumeOn(e, shape, via_key, chain_key) ==
    process_message_ix(gateway, tx_id_pdas[KeyOf(e)], via_key, chain_key, None, ScopeArgs(e, shape),
                       signer_registries)

\* C29: process_message runs its authorization only on the VIA registry of
\* dest_chain_id and the Chain registry of source_chain_id: on the registry
\* account of any other address it fails and keeps the record, with
\* ConstraintSeeds once every account is loaded; and a batch whose first
\* signer is a member of neither of those two registries is refused as
\* unauthorized, whatever the registries of other chain ids hold.
C29_RegistriesScopedByChain ==
    \A e \in ScopeEnvelopes, shape \in ScopeShapes, keys \in CallerRegistryAccounts :
        LET via_key == keys[1]
            chain_key == keys[2]
            r == ConsumeOn(e, shape, via_key, chain_key)
            via == signer_registries[<<"VIA", e.dest_chain_id>>]
            chain == signer_registries[<<"Chain", e.source_chain_id>>]
            scoped == via_key = <<"VIA", e.dest_chain_id>> /\ chain_key = <<"Chain", e.source_chain_id>>
        IN  /\ ~scoped => r.err # "Ok" /\ r.tx_id_pda = tx_id_pdas[KeyOf(e)]
            /\ ~scoped /\ Live(KeyOf(e)) /\ Exists(via_key) /\ Exists(chain_key) => r.err = "ConstraintSeeds"
            /\ scoped => r = Consume(ScopeArgs(e, shape), None)
            /\ scoped /\ Live(KeyOf(e)) /\ e.dest_chain_id = gateway.chain_id
               /\ shape[1][1] \notin Members(via) \cup Members(chain) => r.err = "UnauthorizedSigner"
\* a consume for the local chain was refused as unauthorized while its first
\* signer was a member of the platform registry and of the chain registry of
\* the other chain id
C29_MemberElsewhereRefused ==
    /\ last.op = "process_message" /\ last.result = "UnauthorizedSigner"
    /\ call.consumed # None /\ call.consumed.dest_chain_id = LocalChain
    /\ X \in Members(signer_registries[<<"VIA", 0>>]) /\ X \in Members(signer_registries[<<"Chain", 1>>])
    /\ X \notin Members(signer_registries[<<"VIA", LocalChain>>])
    /\ X \notin Members(signer_registries[<<"Chain", 0>>])

VerifySingle(i) ==
    verify_ed25519_signature(call.signatures[i].signature, call.signatures[i].signer,
                             call.message_hash, call.ixs)

\* C31: verify_ed25519_signature returns true exactly when some Ed25519
\* instruction before the current one carries that signature, that signer
\* and that digest, wherever it sits among the Ed25519 instructions; so
\* every signature of a batch of distinct signers, each with its own
\* instruction, verifies.
C31_VerifyFindsMatchingInstruction ==
    call.op = "authorize" => \A i \in CallPositions : VerifySingle(i) <=> CallVerifies(i)

\* process_message of envelope e with the batch `shape`, on the scoped
\* platform and chain registries and the account at project_key as project
\* registry
ConsumeWithProject(e, shape, project_key) ==
    process_message_ix(gateway, tx_id_pdas[KeyOf(e)], <<"VIA", e.dest_chain_id>>,
                       <<"Chain", e.source_chain_id>>, signer_registries[project_key],
                       ScopeArgs(e, shape), signer_registries)

\* C32: the project tier of process_message is counted against a registry
\* of type Project only: given a registry of another type as
\* project_registry, the instruction refuses the account, or the outcome is
\* the one without a project registry (its members add nothing to the
\* project count and authorize no signer).
C32_ProjectTierOfProjectType ==
    \A e \in ScopeEnvelopes, shape \in ScopeShapes, project_key \in RegistryKeys :
        Exists(project_key) /\ signer_registries[project_key].registry_type # "Project" =>
            \/ ConsumeWithProject(e, shape, project_key).err \in {"ConstraintSeeds", "InvalidSignerRegistryType"}
            \/ ConsumeWithProject(e, shape, project_key) =
                  ConsumeOn(e, shape, <<"VIA", e.dest_chain_id>>, <<"Chain", e.source_chain_id>>)

\* C33: the signer list of every existing registry holds each identity at
\* most once.
C33_SignersListedOnce ==
    \A rk \in RegistryKeys :
        Exists(rk) => Cardinality(Members(signer_registries[rk])) = Len(signer_registries[rk].signers)

\* C34: every live TxId record stores the tx_id of the key its address is
\* derived from (records are held by key, so no two share one), and
\* process_message never fails with InvalidTxId.
C34_RecordStoresKeyTxId ==
    /\ \A k \in Keys : Live(k) => tx_id_pdas[k].tx_id = k[2]
    /\ \A a \in MessageArgs, proj \in ProjectChoices : Consume(a, proj).err # "InvalidTxId"
\* a consume of a live record with a tx_id other than zero got past the
\* comparison of the stored tx_id
C34_StoredTxIdCompared ==
    /\ last.op = "process_message" /\ last.result = "InvalidSignature"
    /\ last.key[2] # 0 /\ Live(last.key)
    /\ tx_id_pdas[last.key].tx_id = last.key[2]

\* the event a step emits: emit!(TxPdaCreated) and emit!(MessageProcessed)
\* are the last statements of the two handlers, behind every check, and the
\* log of a failed transaction is dropped with it
Notification(l) ==
    IF l.op = "create_tx_pda" /\ l.result = "Ok" THEN [event |-> "TxPdaCreated", key |-> l.key]
    ELSE IF l.op = "process_message" /\ l.result = "Ok" THEN [event |-> "MessageProcessed", key |-> l.key]
    ELSE [event |-> "none", key |-> NoKey]

MaxPermLen == 3
Permuted(seq) ==
    IF Len(seq) <= MaxPermLen
    THEN {[i \in 1..Len(seq) |-> seq[f[i]]] : f \in Permutations(1..Len(seq))}
    ELSE {seq, Reverse(seq)}
AuthorizePermuted(signatures) ==
    validate_three_layer_signatures(signatures, call.message_hash, call.via_registry, call.chain_registry,
                                    call.project_registry, call.ixs)

====
